---- MODULE Spec2Model ----
(***************************************************************************)
(* xonsh session history (xonsh/history.py): the in-memory buffer of a     *)
(* History, its background and at-exit HistoryFlusher tasks, the lazy      *)
(* CommandField reads, the queue/condition that serializes access to the   *)
(* session file, and the HistoryGC garbage collector with its policies.    *)
(*                                                                         *)
(* Threads: "main" is the thread that owns the History (append, flush,     *)
(* CommandField indexing run in it); every background HistoryFlusher is a  *)
(* thread of its own.  Each action is one atomic step of one thread.       *)
(***************************************************************************)
EXTENDS Integers, Sequences, FiniteSets, TLC

\* ------------------------------------------------------------------ bounds
MaxCalls == 3          \* calls of the owner: append and CommandField[key]
MaxBufferSize == 2     \* largest buffersize a History is created with
MaxIOFail == 1         \* file operations that raise an I/O error

\* ------------------------------------------------------------------ values
None == -1             \* Python None
Absent == -2           \* a key that is not in a command dict

Fields == {"ts", "inp", "out", "rtn"}

\* The queue holds object identities: the i-th HistoryFlusher is i, the
\* CommandField objects of History.__init__ are 101..104.
FieldId(field) ==
    CASE field = "ts" -> 101
      [] field = "inp" -> 102
      [] field = "out" -> 103
      [] field = "rtn" -> 104

FieldIds == {101, 102, 103, 104}

\* Command dicts handed to append by the n-th call; ts is the caller's clock.
Cmds(n) ==
    { [inp |-> 11, rtn |-> 0, out |-> 21, ts |-> n],
      [inp |-> 12, rtn |-> 1, out |-> Absent, ts |-> n] }

NoCmd == [inp |-> None, rtn |-> None, out |-> None, ts |-> None]

\* Document of the session file before any flusher has loaded it.
NoDoc == [cmds |-> << >>, locked |-> FALSE, ts |-> None]

VARIABLES
    buffer,      \* History.buffer
    hlen,        \* History._len
    buffersize,  \* History.buffersize
    opts,        \* $HISTCONTROL
    queue,       \* History._queue (deque of participants)
    cond,        \* owner of History._cond's lock, 0 when free
    file,        \* the session file's document
    flushers,    \* the HistoryFlusher objects created so far
    main,        \* the owning thread: its position and locals
    ret,         \* what the last finished call of the owning thread returned
    retained,    \* history: the records append has retained, in order
    ncalls,      \* history: calls of append and CommandField[key] so far
    nfail,       \* history: I/O errors raised so far
    dir,         \* the session files in $XONSH_DATA_DIR, by path
    gcenv,       \* the (hsize, units) pair a collection pass resolves
    gc           \* the HistoryGC object and its thread

hvars == << buffer, hlen, buffersize, opts, queue, cond, file, flushers,
            main, ret, retained, ncalls, nfail >>

gvars == << dir, gcenv, gc >>

vars == << hvars, gvars >>

\* ------------------------------------------------------------------ helpers
\* dict.get(field, default)
Get(cmd, field, default) ==
    IF cmd[field] = Absent THEN default ELSE cmd[field]

\* time.time(): a clock that is never None
Now == ncalls + 1

NoRet == [op |-> "none", kind |-> "none", field |-> "inp", key |-> 0,
          val |-> None, src |-> "none", pending |-> FALSE, cmd |-> NoCmd,
          n |-> 0]

MainIdle == [pc |-> "idle", op |-> "none", cmd |-> NoCmd, field |-> "inp",
             raw |-> 0, key |-> 0, rtn |-> None, pending |-> FALSE, hf |-> 0]

\* i_am_at_the_front: self is self.queue[0]
i_am_at_the_front(self) == queue[1] = self

\* History.__init__: an empty buffer and queue, and a session file with no
\* commands that the caller's meta marks as locked and not yet closed
HistoryInit ==
    /\ buffersize \in 1..MaxBufferSize
    /\ opts \in SUBSET {"ignoredups", "ignoreerr"}
    /\ buffer = << >>
    /\ hlen = 0
    /\ queue = << >>
    /\ cond = 0
    /\ file = [cmds |-> << >>, locked |-> TRUE, ts |-> None]
    /\ flushers = << >>
    /\ main = MainIdle
    /\ ret = NoRet
    /\ retained = << >>
    /\ ncalls = 0
    /\ nfail = 0

\* ------------------------------------------------------- HistoryFlusher
\* dump with the new records put in front of the loaded ones
dump_prepend(hist, buf, at_exit) ==
    [cmds |-> buf \o hist.cmds,
     ts |-> IF at_exit THEN Now ELSE hist.ts,
     locked |-> IF at_exit THEN FALSE ELSE hist.locked]

\* HistoryFlusher.dump, lines 170-173: the loaded document with the
\* flusher's buffer appended and, at exit, the end time and the lock set.
dump(hist, buf, at_exit) ==
    [cmds |-> hist.cmds \o buf,
     ts |-> IF at_exit THEN Now ELSE hist.ts,
     locked |-> IF at_exit THEN FALSE ELSE hist.locked]

\* queue.popleft()
popleft(q) == Tail(q)

\* the flusher is handed the buffer itself instead of a copy, and
\* self.buffer.clear() empties what it holds
NewFlusher_alias(buf, at_exit) ==
    [buffer |-> << >>, at_exit |-> at_exit,
     pc |-> IF at_exit THEN "dump" ELSE "start", hist |-> NoDoc]

\* HistoryFlusher.__init__ with at_exit=False: the new flusher joins the
\* queue and its thread is started.
NewFlusher(buf, at_exit) ==
    [buffer |-> buf, at_exit |-> at_exit,
     pc |-> IF at_exit THEN "dump" ELSE "start", hist |-> NoDoc]

\* flush without self.buffer.clear()
flush_no_clear(buf) ==
    IF Len(buf) = 0
    THEN /\ buffer' = buf
         /\ UNCHANGED << queue, flushers >>
    ELSE /\ flushers' = Append(flushers, NewFlusher(buf, FALSE))
         /\ queue' = Append(queue, Len(flushers) + 1)
         /\ buffer' = buf

\* History.flush(at_exit=False) on the buffer buf
flush(buf) ==
    IF Len(buf) = 0
    THEN /\ buffer' = buf
         /\ UNCHANGED << queue, flushers >>
    ELSE /\ flushers' = Append(flushers, NewFlusher(buf, FALSE))
         /\ queue' = Append(queue, Len(flushers) + 1)
         /\ buffer' = << >>

\* what flush(buf) returns: the flusher, or None
flush_rtn(buf) == IF Len(buf) = 0 THEN None ELSE Len(flushers) + 1

\* ------------------------------------------------------- CommandField
\* CommandField.__getitem__ for an int key, lines 204-217: the bounds
\* check, the normalisation of the key and the buffer path.
getitem(field, key) ==
    LET size == hlen
        k == IF key < 0 THEN size + key ELSE key
        bufsize == Len(buffer)
        i == k + bufsize - size
    IN  IF size = 0
        THEN [kind |-> "IndexError", key |-> key, val |-> None]
        ELSE IF size - bufsize <= k
             THEN IF i < bufsize
                  THEN [kind |-> "value", key |-> k,
                        val |-> Get(buffer[i + 1], field, None)]
                  ELSE [kind |-> "IndexError", key |-> k, val |-> None]
             ELSE [kind |-> "disk", key |-> k, val |-> None]

\* ------------------------------------------------------- History.append
\* the buffer test written with > in place of >=
append_rest_gt(cmd) ==
    IF "ignoreerr" \in opts /\ cmd.rtn # 0
    THEN /\ UNCHANGED << buffer, hlen, queue, flushers, retained >>
         /\ ret' = [NoRet EXCEPT !.op = "append", !.kind = "skip",
                                 !.cmd = cmd, !.n = ncalls']
    ELSE /\ hlen' = hlen + 1
         /\ retained' = Append(retained, cmd)
         /\ IF Len(buffer) + 1 > buffersize
            THEN /\ flush(Append(buffer, cmd))
                 /\ ret' = [NoRet EXCEPT !.op = "append", !.kind = "kept",
                                 !.cmd = cmd, !.n = ncalls',
                                 !.val = flush_rtn(Append(buffer, cmd))]
            ELSE /\ buffer' = Append(buffer, cmd)
                 /\ UNCHANGED << queue, flushers >>
                 /\ ret' = [NoRet EXCEPT !.op = "append", !.kind = "kept",
                                 !.cmd = cmd, !.n = ncalls']

\* lines 479-489: the ignoreerr test, then the record is kept
append_rest(cmd) ==
    IF "ignoreerr" \in opts /\ cmd.rtn # 0
    THEN /\ UNCHANGED << buffer, hlen, queue, flushers, retained >>
         /\ ret' = [NoRet EXCEPT !.op = "append", !.kind = "skip",
                                 !.cmd = cmd, !.n = ncalls']
    ELSE /\ hlen' = hlen + 1
         /\ retained' = Append(retained, cmd)
         /\ IF Len(buffer) + 1 >= buffersize
            THEN /\ flush(Append(buffer, cmd))
                 /\ ret' = [NoRet EXCEPT !.op = "append", !.kind = "kept",
                                 !.cmd = cmd, !.n = ncalls',
                                 !.val = flush_rtn(Append(buffer, cmd))]
            ELSE /\ buffer' = Append(buffer, cmd)
                 /\ UNCHANGED << queue, flushers >>
                 /\ ret' = [NoRet EXCEPT !.op = "append", !.kind = "kept",
                                 !.cmd = cmd, !.n = ncalls']

\* append that compares the new input with nothing
append_dup_never(cmd, last) == append_rest(cmd)

\* lines 475-478 once self.inps[-1] is known to be last
append_dup(cmd, last) ==
    IF cmd.inp = last
    THEN /\ UNCHANGED << buffer, hlen, queue, flushers, retained >>
         /\ ret' = [NoRet EXCEPT !.op = "append", !.kind = "skip",
                                 !.cmd = cmd, !.n = ncalls']
    ELSE append_rest(cmd)

\* The participant joins the queue for a disk read (lines 219-220)
StartRead(op, cmd, field, raw, key) ==
    /\ queue' = Append(queue, FieldId(field))
    /\ main' = [MainIdle EXCEPT !.pc = "rd_lock", !.op = op, !.cmd = cmd,
                                !.field = field, !.raw = raw, !.key = key,
                                !.pending = (queue # << >>)]

\* History.append(cmd), up to the point where it returns or has to read
\* the last input from the file.
MainAppend(cmd) ==
    /\ main.pc = "idle"
    /\ ncalls < MaxCalls
    /\ ncalls' = ncalls + 1
    /\ UNCHANGED << buffersize, opts, cond, file, nfail >>
    /\ IF "ignoredups" \in opts /\ hlen > 0
       THEN LET r == getitem("inp", -1)
            IN  IF r.kind = "disk"
                THEN /\ StartRead("append", cmd, "inp", -1, r.key)
                     /\ UNCHANGED << buffer, hlen, flushers, retained, ret >>
                ELSE /\ append_dup(cmd, r.val)
                     /\ UNCHANGED main
       ELSE /\ append_rest(cmd)
            /\ UNCHANGED main
    /\ UNCHANGED gvars

\* History.append goes on after self.inps[-1] came back from the file
MainAppendResume ==
    /\ main.pc = "append_resume"
    /\ UNCHANGED << buffersize, opts, cond, file, ncalls, nfail >>
    /\ append_dup(main.cmd, main.rtn)
    /\ main' = MainIdle
    /\ UNCHANGED gvars

\* History.flush() called by the owner
MainFlush ==
    /\ main.pc = "idle"
    /\ flush(buffer)
    /\ ret' = [NoRet EXCEPT !.op = "flush", !.val = flush_rtn(buffer),
                            !.n = ncalls]
    /\ UNCHANGED << hlen, buffersize, opts, cond, file, main, retained,
                    ncalls, nfail >>
    /\ UNCHANGED gvars

\* CommandField[key] called by the owner, up to the point where it returns
\* or joins the queue for the file
MainGetItem(field, key) ==
    /\ main.pc = "idle"
    /\ ncalls < MaxCalls
    /\ ncalls' = ncalls + 1
    /\ UNCHANGED << buffer, hlen, buffersize, opts, cond, file, flushers,
                    retained, nfail >>
    /\ LET r == getitem(field, key)
       IN  IF r.kind = "disk"
           THEN /\ StartRead("getitem", NoCmd, field, key, r.key)
                /\ UNCHANGED ret
           ELSE /\ ret' = [NoRet EXCEPT !.op = "getitem", !.kind = r.kind,
                                        !.field = field, !.key = key,
                                        !.val = r.val, !.src = "buffer",
                                        !.n = ncalls']
                /\ UNCHANGED << queue, main >>
    /\ UNCHANGED gvars

\* the lock of History._cond
MainThread == 100

\* line 221: with self.hist._cond
MainReadLock ==
    /\ main.pc = "rd_lock"
    /\ cond = 0
    /\ cond' = MainThread
    /\ main' = [main EXCEPT !.pc = "rd_wait_for"]
    /\ UNCHANGED << buffer, hlen, buffersize, opts, queue, file, flushers,
                    ret, retained, ncalls, nfail >>
    /\ UNCHANGED gvars

\* line 222: wait_for(i_am_at_the_front) tests the predicate once and, when
\* it is false, releases the lock and sleeps until the condition is
\* notified; nothing in the module notifies it.
MainReadWaitFor ==
    /\ main.pc = "rd_wait_for"
    /\ IF i_am_at_the_front(FieldId(main.field))
       THEN /\ main' = [main EXCEPT !.pc = "rd_open"]
            /\ UNCHANGED cond
       ELSE /\ main' = [main EXCEPT !.pc = "rd_waiting"]
            /\ cond' = 0
    /\ UNCHANGED << buffer, hlen, buffersize, opts, queue, file, flushers,
                    ret, retained, ncalls, nfail >>
    /\ UNCHANGED gvars

\* lj['cmds'][key] of the file codec: the record at key, or an IndexError.
\* What the codec does with a negative key is not fixed: it raises, or it
\* counts from the end of what it holds and returns some record.
lj_cmds_getitem(cmds, key) ==
    IF key >= 0
    THEN (IF key < Len(cmds) THEN {[ok |-> TRUE, cmd |-> cmds[key + 1]]}
          ELSE {[ok |-> FALSE, cmd |-> NoCmd]})
    ELSE {[ok |-> FALSE, cmd |-> NoCmd]} \cup
         {[ok |-> TRUE, cmd |-> cmds[i]] : i \in 1..Len(cmds)}

\* lines 223-227: lj['cmds'][key].get(field, default)
MainReadOpen ==
    /\ main.pc = "rd_open"
    /\ \E r \in lj_cmds_getitem(file.cmds, main.key) :
       IF r.ok
       THEN /\ main' = [main EXCEPT !.pc = "rd_pop",
                           !.rtn = Get(r.cmd, main.field, None)]
            /\ UNCHANGED << cond, ret >>
       ELSE /\ main' = MainIdle
            /\ cond' = 0
            /\ ret' = [NoRet EXCEPT !.op = main.op, !.kind = "IndexError",
                                    !.field = main.field, !.key = main.raw,
                                    !.src = "disk", !.cmd = main.cmd,
                                    !.n = ncalls]
    /\ UNCHANGED << buffer, hlen, buffersize, opts, queue, file, flushers,
                    retained, ncalls, nfail >>
    /\ UNCHANGED gvars

\* lines 223-227 raise: the with block is left, the lock released, and
\* queue.popleft() of line 228 is not reached
MainReadFail ==
    /\ main.pc = "rd_open"
    /\ nfail < MaxIOFail
    /\ nfail' = nfail + 1
    /\ main' = MainIdle
    /\ cond' = 0
    /\ ret' = [NoRet EXCEPT !.op = main.op, !.kind = "IOError",
                            !.field = main.field, !.key = main.raw,
                            !.src = "disk", !.cmd = main.cmd,
                            !.n = ncalls]
    /\ UNCHANGED << buffer, hlen, buffersize, opts, queue, file, flushers,
                    retained, ncalls >>
    /\ UNCHANGED gvars

\* lines 228-229: queue.popleft(), the lock is released, rtn is returned
MainReadPop ==
    /\ main.pc = "rd_pop"
    /\ queue' = popleft(queue)
    /\ cond' = 0
    /\ IF main.op = "append"
       THEN /\ main' = [main EXCEPT !.pc = "append_resume"]
            /\ UNCHANGED ret
       ELSE /\ main' = MainIdle
            /\ ret' = [NoRet EXCEPT !.op = "getitem", !.kind = "value",
                                    !.field = main.field, !.key = main.raw,
                                    !.val = main.rtn, !.src = "disk",
                                    !.pending = main.pending, !.n = ncalls]
    /\ UNCHANGED << buffer, hlen, buffersize, opts, file, flushers,
                    retained, ncalls, nfail >>
    /\ UNCHANGED gvars

\* ------------------------------------------- HistoryFlusher as a thread
Background == { i \in 1..Len(flushers) : ~flushers[i].at_exit }

\* line 157: with self.cond
FlusherLock(i) ==
    /\ flushers[i].pc = "start"
    /\ cond = 0
    /\ cond' = i
    /\ flushers' = [flushers EXCEPT ![i].pc = "wait_for"]
    /\ UNCHANGED << buffer, hlen, buffersize, opts, queue, file, main, ret,
                    retained, ncalls, nfail >>
    /\ UNCHANGED gvars

\* line 158: self.cond.wait_for(self.i_am_at_the_front)
FlusherWaitFor(i) ==
    /\ flushers[i].pc = "wait_for"
    /\ IF i_am_at_the_front(i)
       THEN /\ flushers' = [flushers EXCEPT ![i].pc = "dump"]
            /\ UNCHANGED cond
       ELSE /\ flushers' = [flushers EXCEPT ![i].pc = "waiting"]
            /\ cond' = 0
    /\ UNCHANGED << buffer, hlen, buffersize, opts, queue, file, main, ret,
                    retained, ncalls, nfail >>
    /\ UNCHANGED gvars

\* dump, lines 168-169: the file is loaded (by the thread of a background
\* flusher, by the owner for the at-exit flusher)
FlusherDumpRead(i) ==
    /\ flushers[i].pc = "dump"
    /\ flushers' = [flushers EXCEPT ![i].pc = "loaded", ![i].hist = file]
    /\ UNCHANGED << buffer, hlen, buffersize, opts, queue, cond, file, main,
                    ret, retained, ncalls, nfail >>
    /\ UNCHANGED gvars

\* dump, lines 170-175: the merged document is written back
FlusherDumpWrite(i) ==
    /\ flushers[i].pc = "loaded"
    /\ file' = dump(flushers[i].hist, flushers[i].buffer, flushers[i].at_exit)
    /\ flushers' = [flushers EXCEPT ![i].pc = "written"]
    /\ UNCHANGED << buffer, hlen, buffersize, opts, queue, cond, main, ret,
                    retained, ncalls, nfail >>
    /\ UNCHANGED gvars

\* dump raises in a background flusher: run leaves the with block, the lock
\* is released and queue.popleft() of line 160 is not reached
FlusherDumpFail(i) ==
    /\ i \in Background
    /\ flushers[i].pc \in {"dump", "loaded"}
    /\ nfail < MaxIOFail
    /\ nfail' = nfail + 1
    /\ flushers' = [flushers EXCEPT ![i].pc = "failed"]
    /\ cond' = 0
    /\ UNCHANGED << buffer, hlen, buffersize, opts, queue, file, main, ret,
                    retained, ncalls >>
    /\ UNCHANGED gvars

\* run, line 160: queue.popleft(), then the lock is released
FlusherPop(i) ==
    /\ i \in Background
    /\ flushers[i].pc = "written"
    /\ queue' = popleft(queue)
    /\ cond' = 0
    /\ flushers' = [flushers EXCEPT ![i].pc = "done"]
    /\ UNCHANGED << buffer, hlen, buffersize, opts, file, main, ret,
                    retained, ncalls, nfail >>
    /\ UNCHANGED gvars

\* --------------------------------------------- History.flush(at_exit=True)
\* lines 505-508 and HistoryFlusher.__init__ up to line 150: nothing to do
\* on an empty buffer, else the at-exit flusher joins the queue
MainFlushAtExit ==
    /\ main.pc = "idle"
    /\ IF Len(buffer) = 0
       THEN /\ main' = [MainIdle EXCEPT !.pc = "exited"]
            /\ ret' = [NoRet EXCEPT !.op = "flush_at_exit", !.n = ncalls]
            /\ UNCHANGED << queue, flushers >>
       ELSE /\ flushers' = Append(flushers, NewFlusher(buffer, TRUE))
            /\ queue' = Append(queue, Len(flushers) + 1)
            /\ main' = [MainIdle EXCEPT !.pc = "at_exit",
                                        !.hf = Len(flushers) + 1]
            /\ UNCHANGED ret
    /\ UNCHANGED << buffer, hlen, buffersize, opts, cond, file, retained,
                    ncalls, nfail >>
    /\ UNCHANGED gvars

\* HistoryFlusher.__init__ line 152 after self.dump(), then History.flush
\* lines 509-510
MainAtExitPop ==
    /\ main.pc = "at_exit"
    /\ flushers[main.hf].pc = "written"
    /\ queue' = popleft(queue)
    /\ flushers' = [flushers EXCEPT ![main.hf].pc = "done"]
    /\ buffer' = << >>
    /\ main' = [MainIdle EXCEPT !.pc = "exited", !.hf = main.hf]
    /\ ret' = [NoRet EXCEPT !.op = "flush_at_exit", !.val = main.hf,
                            !.n = ncalls]
    /\ UNCHANGED << hlen, buffersize, opts, cond, file, retained, ncalls, nfail >>
    /\ UNCHANGED gvars


\* ------------------------------------------------------------- policies
\* The file lists are sequences of <<close time, number of commands, path>>.

\* s[:e] of Python
SliceTo(s, e) ==
    LET stop == IF e < 0 THEN (IF Len(s) + e < 0 THEN 0 ELSE Len(s) + e)
                ELSE (IF e > Len(s) THEN Len(s) ELSE e)
    IN  SubSeq(s, 1, stop)

\* s[::-1]
Reversed(s) == [i \in 1..Len(s) |-> s[Len(s) + 1 - i]]

RECURSIVE CommandsScan(_, _, _, _, _)
\* the loop of _gc_commands_to_rmfiles over rev = files[::-1] from index i,
\* with the counters n and ncmds and the list rm: <<rm, n>> at its end
CommandsScan(hsize, rev, i, n, ncmds) ==
    IF i > Len(rev) THEN << << >>, n >>
    ELSE LET fcmds == rev[i][2]
             empty == IF fcmds = 0 THEN << rev[i] >> ELSE << >>
         IN  IF ncmds + fcmds > hsize
             THEN << empty, n >>
             ELSE LET rest == CommandsScan(hsize, rev, i + 1, n + 1,
                                           ncmds + fcmds)
                  IN  << empty \o rest[1], rest[2] >>

\* the policy with the empty files left out of the count n of kept files
_gc_commands_uncounted(hsize, files) ==
    LET r == CommandsScan(hsize, Reversed(files), 1, 0, 0)
    IN  r[1] \o SliceTo(files, 0 - (r[2] - Len(r[1])))

_gc_commands_to_rmfiles(hsize, files) ==
    LET r == CommandsScan(hsize, Reversed(files), 1, 0, 0)
    IN  r[1] \o SliceTo(files, 0 - r[2])

_gc_files_to_rmfiles(hsize, files) ==
    IF Len(files) > hsize THEN SliceTo(files, 0 - hsize) ELSE << >>

RECURSIVE SecondsScan(_, _, _, _)
SecondsScan(hsize, files, now, i) ==
    IF i > Len(files) THEN << >>
    ELSE IF (now - files[i][1]) < hsize THEN << >>
    ELSE << << None, None, files[i][3] >> >>
            \o SecondsScan(hsize, files, now, i + 1)

\* the age test written with <= in place of <
_gc_seconds_le(hsize, files, now) == SecondsScan(hsize + 1, files, now, 1)

_gc_seconds_to_rmfiles(hsize, files, now) == SecondsScan(hsize, files, now, 1)

RECURSIVE BytesScan(_, _, _, _, _, _)
\* the loop of _gc_bytes_to_rmfiles: the n it ends with, or -1 when
\* os.stat raises because the file is gone
BytesScan(hsize, rev, d, i, n, nbytes) ==
    IF i > Len(rev) THEN n
    ELSE IF ~d[rev[i][3]].exists THEN -1
    ELSE LET fsize == d[rev[i][3]].size
         IN  IF nbytes + fsize > hsize THEN n
             ELSE BytesScan(hsize, rev, d, i + 1, n + 1, nbytes + fsize)

\* the policy that keeps the file the scan stops at
_gc_bytes_keep_stop(hsize, files, d) ==
    LET n == BytesScan(hsize, Reversed(files), d, 1, 0, 0)
    IN  IF n < 0 THEN "OSError" ELSE SliceTo(files, 0 - (n + 1))

\* _gc_bytes_to_rmfiles on the directory d; "OSError" when os.stat raises
_gc_bytes_to_rmfiles(hsize, files, d) ==
    LET n == BytesScan(hsize, Reversed(files), d, 1, 0, 0)
    IN  IF n < 0 THEN "OSError" ELSE SliceTo(files, 0 - n)

\* ------------------------------------------------------------- HistoryGC
NFiles == 3            \* session files in the data directory
MaxOtherSteps == 1     \* files other processes close or remove during the pass

Paths == 1..NFiles

\* the session that starts the collector owns path 1
OwnPath == 1

\* time.time() during the pass
GCNow == 10

Units == {"commands", "files", "s", "b"}

\* order of the (ts, ncmds, path) tuples that files.sort() uses
TupleLess(a, b) ==
    \/ a[1] < b[1]
    \/ a[1] = b[1] /\ a[2] < b[2]
    \/ a[1] = b[1] /\ a[2] = b[2] /\ a[3] < b[3]

RECURSIVE Sorted(_)
\* files.sort()
Sorted(s) ==
    IF s = << >> THEN << >>
    ELSE LET m == CHOOSE i \in 1..Len(s) :
                     \A j \in 1..Len(s) : i = j \/ TupleLess(s[i], s[j])
                         \/ (s[i] = s[j] /\ i < j)
             rest == [k \in 1..(Len(s) - 1) |-> IF k < m THEN s[k] ELSE s[k + 1]]
         IN  << s[m] >> \o Sorted(rest)

\* files() that lists locked files too
skip_locked_never(only_unlocked, locked) == FALSE

\* files(), line 124: is this file left out of the list?
skip_locked(only_unlocked, locked) == only_unlocked /\ locked

\* files(), lines 127-129: the tuple listed for the file at path f
file_info(d, f) ==
    << IF d[f].ts = None THEN GCNow ELSE d[f].ts, d[f].ncmds, f >>

GCNew == [pc |-> "new", wait_for_shell |-> TRUE, table |-> FALSE,
          todo |-> << >>, files |-> << >>, rmfiles |-> << >>,
          seenLocked |-> {}, removed |-> {}, missed |-> {}, others |-> 0,
          err |-> "none"]

RECURSIVE SetToSeq(_)
SetToSeq(S) ==
    IF S = {} THEN << >>
    ELSE LET x == CHOOSE y \in S : \A z \in S : y <= z
         IN  << x >> \o SetToSeq(S \ {x})

\* HistoryGC.__init__, lines 79-83: the thread is started
GCStart(wait_for_shell) ==
    /\ gc.pc = "new"
    /\ gc' = [gc EXCEPT !.pc = "wait", !.wait_for_shell = wait_for_shell]
    /\ UNCHANGED << dir, gcenv >>
    /\ UNCHANGED hvars

\* HistoryGC.__init__, lines 84-87, in the thread that creates the collector
GCInitTable ==
    /\ gc.pc # "new"
    /\ ~gc.table
    /\ gc' = [gc EXCEPT !.table = TRUE]
    /\ UNCHANGED << dir, gcenv >>
    /\ UNCHANGED hvars

\* the shell tells the collector that it is ready
ShellReady ==
    /\ gc.pc # "new"
    /\ gc.wait_for_shell
    /\ gc' = [gc EXCEPT !.wait_for_shell = FALSE]
    /\ UNCHANGED << dir, gcenv >>
    /\ UNCHANGED hvars

\* run, lines 90-96 and files, lines 117-119: the loop is left, the size is
\* resolved and the directory is globbed
GCGlob ==
    /\ gc.pc = "wait"
    /\ ~gc.wait_for_shell
    /\ gc' = [gc EXCEPT !.pc = "list",
                        !.todo = SetToSeq({f \in Paths : dir[f].exists})]
    /\ UNCHANGED << dir, gcenv >>
    /\ UNCHANGED hvars

\* files, lines 121-132, for the next globbed path
GCListOne ==
    /\ gc.pc = "list"
    /\ gc.todo # << >>
    /\ LET f == Head(gc.todo)
       IN  IF ~dir[f].exists
           THEN gc' = [gc EXCEPT !.todo = Tail(gc.todo)]
           ELSE IF skip_locked(TRUE, dir[f].locked)
           THEN gc' = [gc EXCEPT !.todo = Tail(gc.todo),
                          !.seenLocked = gc.seenLocked \cup
                              (IF dir[f].locked THEN {f} ELSE {})]
           ELSE gc' = [gc EXCEPT !.todo = Tail(gc.todo),
                          !.files = Append(gc.files, file_info(dir, f)),
                          !.seenLocked = gc.seenLocked \cup
                              (IF dir[f].locked THEN {f} ELSE {})]
    /\ UNCHANGED << dir, gcenv >>
    /\ UNCHANGED hvars

\* the policy of the unit: gc_units_to_rmfiles.get(units)(hsize, files)
rmfiles_fn(units, hsize, files, d) ==
    CASE units = "commands" -> _gc_commands_to_rmfiles(hsize, files)
      [] units = "files" -> _gc_files_to_rmfiles(hsize, files)
      [] units = "s" -> _gc_seconds_to_rmfiles(hsize, files, GCNow)
      [] units = "b" -> _gc_bytes_to_rmfiles(hsize, files, d)

\* files, line 133, and run, lines 98-102: the list is sorted, the policy
\* looked up and applied
GCSelect ==
    /\ gc.pc = "list"
    /\ gc.todo = << >>
    /\ LET files == Sorted(gc.files)
       IN  IF ~gc.table
           THEN gc' = [gc EXCEPT !.pc = "error", !.err = "AttributeError",
                                 !.files = files]
           ELSE IF gcenv.units \notin Units
           THEN gc' = [gc EXCEPT !.pc = "error", !.err = "ValueError",
                                 !.files = files]
           ELSE LET rm == rmfiles_fn(gcenv.units, gcenv.hsize, files, dir)
                IN  IF rm = "OSError"
                    THEN gc' = [gc EXCEPT !.pc = "error", !.err = "OSError",
                                          !.files = files]
                    ELSE gc' = [gc EXCEPT !.pc = "remove", !.files = files,
                                          !.rmfiles = rm]
    /\ UNCHANGED << dir, gcenv >>
    /\ UNCHANGED hvars

\* the removal loop without its except clause: a file that is gone ends the
\* pass with the OSError
GCRemove_raises ==
    /\ gc.pc = "remove"
    /\ gc.rmfiles # << >>
    /\ LET f == Head(gc.rmfiles)[3]
       IN  IF dir[f].exists
           THEN /\ dir' = [dir EXCEPT ![f].exists = FALSE]
                /\ gc' = [gc EXCEPT !.rmfiles = Tail(gc.rmfiles),
                                    !.removed = gc.removed \cup {f}]
           ELSE /\ UNCHANGED dir
                /\ gc' = [gc EXCEPT !.pc = "error", !.err = "OSError"]
    /\ UNCHANGED gcenv
    /\ UNCHANGED hvars

\* run, lines 102-106: os.remove of the next selected file; OSError is passed
GCRemove ==
    /\ gc.pc = "remove"
    /\ gc.rmfiles # << >>
    /\ LET f == Head(gc.rmfiles)[3]
       IN  IF dir[f].exists
           THEN /\ dir' = [dir EXCEPT ![f].exists = FALSE]
                /\ gc' = [gc EXCEPT !.rmfiles = Tail(gc.rmfiles),
                                    !.removed = gc.removed \cup {f}]
           ELSE /\ UNCHANGED dir
                /\ gc' = [gc EXCEPT !.rmfiles = Tail(gc.rmfiles),
                                    !.missed = gc.missed \cup {f}]
    /\ UNCHANGED gcenv
    /\ UNCHANGED hvars

\* run returns
GCDone ==
    /\ gc.pc = "remove"
    /\ gc.rmfiles = << >>
    /\ gc' = [gc EXCEPT !.pc = "done"]
    /\ UNCHANGED << dir, gcenv >>
    /\ UNCHANGED hvars

\* the owner of the locked session file f closes it: the at-exit dump sets
\* the end time and clears locked
OwnerCloses(f) ==
    /\ gc.pc # "new"
    /\ dir[f].exists
    /\ dir[f].locked
    /\ gc.others < MaxOtherSteps
    /\ dir' = [dir EXCEPT ![f].locked = FALSE, ![f].ts = GCNow]
    /\ gc' = [gc EXCEPT !.others = gc.others + 1]
    /\ UNCHANGED gcenv
    /\ UNCHANGED hvars

\* another collector removes the closed session file f
OtherRemoves(f) ==
    /\ gc.pc # "new"
    /\ gc.others < MaxOtherSteps
    /\ dir[f].exists
    /\ ~dir[f].locked
    /\ dir' = [dir EXCEPT ![f].exists = FALSE]
    /\ gc' = [gc EXCEPT !.others = gc.others + 1]
    /\ UNCHANGED gcenv
    /\ UNCHANGED hvars

\* a session file: closed at time ts, or still locked by its session
ClosedFile(ts, ncmds) ==
    [exists |-> TRUE, locked |-> FALSE, ts |-> ts, ncmds |-> ncmds,
     size |-> 1 + ncmds]

LockedFile(ncmds) ==
    [exists |-> TRUE, locked |-> TRUE, ts |-> None, ncmds |-> ncmds,
     size |-> 1 + ncmds]

\* the close time of the session file at path f, when it is closed
CloseTime(f) == 9 - 2 * f

NCmds == {0, 2}

HSizes == {0, 2, 6}

\* a History created in a data directory that holds only its own file;
\* its collector is left out here
Init ==
    /\ HistoryInit
    /\ dir = [f \in Paths |-> IF f = OwnPath THEN LockedFile(0)
                              ELSE [LockedFile(0) EXCEPT !.exists = FALSE]]
    /\ gcenv = [hsize |-> 0, units |-> "commands"]
    /\ gc = GCNew

Next ==
    \/ \E cmd \in Cmds(ncalls + 1) : MainAppend(cmd)
    \/ MainAppendResume
    \/ MainFlush
    \/ \E field \in Fields, key \in (0 - hlen - 1)..hlen :
          MainGetItem(field, key)
    \/ MainReadLock
    \/ MainReadWaitFor
    \/ MainReadOpen
    \/ MainReadFail
    \/ MainReadPop
    \/ MainFlushAtExit
    \/ MainAtExitPop
    \/ \E i \in 1..Len(flushers) :
          \/ FlusherLock(i)
          \/ FlusherWaitFor(i)
          \/ FlusherDumpRead(i)
          \/ FlusherDumpWrite(i)
          \/ FlusherDumpFail(i)
          \/ FlusherPop(i)

Spec == Init /\ [][Next]_vars

\* A collector in a data directory with the files of earlier sessions, some
\* of them still locked; the History that starts it is otherwise idle.
InitGC ==
    /\ buffersize = 1
    /\ opts = {}
    /\ buffer = << >>
    /\ hlen = 0
    /\ queue = << >>
    /\ cond = 0
    /\ file = [cmds |-> << >>, locked |-> TRUE, ts |-> None]
    /\ flushers = << >>
    /\ main = MainIdle
    /\ ret = NoRet
    /\ retained = << >>
    /\ ncalls = 0
    /\ nfail = 0
    /\ dir \in { d \in [Paths -> {LockedFile(n) : n \in NCmds} \cup
                                 {ClosedFile(t, n) : t \in 1..9, n \in NCmds}] :
                   /\ d[OwnPath].locked
                   /\ \A f \in Paths : ~d[f].locked => d[f].ts = CloseTime(f) }
    /\ gcenv \in [hsize : HSizes, units : Units \cup {"kb"}]
    /\ gc = GCNew

NextGC ==
    \/ \E w \in BOOLEAN : GCStart(w)
    \/ GCInitTable
    \/ ShellReady
    \/ GCGlob
    \/ GCListOne
    \/ GCSelect
    \/ GCRemove
    \/ GCDone
    \/ \E f \in Paths : OwnerCloses(f)
    \/ \E f \in Paths : OtherRemoves(f)

SpecGC == InitGC /\ [][NextGC]_vars

\* close times, command counts and limits the policies are applied to
PolTimes == {7, 8, 9}

PolCmds == {0, 1, 2}

PolLimits == 0..4

\* the list files(only_unlocked=True) builds from the directory d, before
\* the sort
listing(d) ==
    LET fs == SetToSeq({f \in Paths : d[f].exists /\ ~d[f].locked})
    IN  [i \in 1..Len(fs) |-> file_info(d, fs[i])]

\* the directories of closed session files the policies are applied to
PolDirs ==
    [Paths -> {[LockedFile(0) EXCEPT !.exists = FALSE]} \cup
              {ClosedFile(t, n) : t \in PolTimes, n \in PolCmds}]

\* A collector that has listed a directory of closed session files and is
\* about to sort the list and apply the policy of its unit.
InitPol ==
    /\ buffersize = 1
    /\ opts = {}
    /\ buffer = << >>
    /\ hlen = 0
    /\ queue = << >>
    /\ cond = 0
    /\ file = [cmds |-> << >>, locked |-> TRUE, ts |-> None]
    /\ flushers = << >>
    /\ main = MainIdle
    /\ ret = NoRet
    /\ retained = << >>
    /\ ncalls = 0
    /\ nfail = 0
    /\ dir \in PolDirs
    /\ gcenv \in [hsize : PolLimits, units : Units]
    /\ gc = [GCNew EXCEPT !.pc = "list", !.wait_for_shell = FALSE,
                          !.table = TRUE, !.files = listing(dir)]

NextPol == GCSelect

SpecPol == InitPol /\ [][NextPol]_vars

\* One step of the thread of background flusher i
FlusherStep(i) ==
    /\ i \in Background
    /\ \/ FlusherLock(i)
       \/ FlusherWaitFor(i)
       \/ FlusherDumpRead(i)
       \/ FlusherDumpWrite(i)
       \/ FlusherPop(i)

\* One step of the owning thread inside a call it has started
MainStep ==
    \/ MainAppendResume
    \/ MainReadLock
    \/ MainReadWaitFor
    \/ MainReadOpen
    \/ MainReadPop
    \/ MainAtExitPop
    \/ /\ main.pc = "at_exit"
       /\ FlusherDumpRead(main.hf) \/ FlusherDumpWrite(main.hf)

\* The threads are scheduled fairly: a thread that can take a step takes it.
\* New calls of the owner and I/O errors are not forced.
FairSpec ==
    /\ Spec
    /\ WF_vars(MainStep)
    /\ \A i \in 1..MaxCalls : WF_vars(FlusherStep(i))

\* ------------------------------------------------------------------ claims
RECURSIVE Handed(_)
\* number of records handed to the flush tasks fs
Handed(fs) ==
    IF fs = << >> THEN 0 ELSE Len(Head(fs).buffer) + Handed(Tail(fs))

\* C1: len(History) is the number of records append has retained, and,
\* whenever the owner is not inside the at-exit flush, the number of records
\* handed to flush tasks plus the buffer length; it never decreases.
C1_Length ==
    /\ [](/\ hlen = Len(retained)
          /\ main.pc # "at_exit" => hlen = Handed(flushers) + Len(buffer))
    /\ [][hlen' >= hlen]_vars

C1_Witness ==
    /\ hlen = 3
    /\ Len(buffer) = 1
    /\ \E i \in Background : flushers[i].pc = "done"
    /\ \E i \in Background : flushers[i].pc = "start"

\* index of the record a key names, negative keys counting from the end
Idx(key) == IF key < 0 THEN Len(retained) + key ELSE key

\* the key names a record: it lies in [-len, len - 1]
Valid(key) == Idx(key) \in 0..(Len(retained) - 1) /\ key >= 0 - Len(retained)

\* C2: for a valid key, a value CommandField[key] returns, from the buffer
\* or from the file, is that field of the key-th retained record (the default
\* when the record has no such field), negative keys counting from the end.
C2_ReadBack ==
    /\ (ret.op = "getitem" /\ ret.kind = "value" /\ Valid(ret.key))
          => ret.val = Get(retained[Idx(ret.key) + 1], ret.field, None)
    /\ (main.pc \in {"rd_pop", "append_resume"} /\ Valid(main.raw))
          => main.rtn = Get(retained[Idx(main.raw) + 1], main.field, None)

C2_Witness ==
    /\ ret.op = "getitem"
    /\ ret.kind = "value"
    /\ ret.src = "disk"
    /\ ret.pending
    /\ ret.key < 0
    /\ ret.val # None

\* C3: once the closing flush has returned and every flush task has finished,
\* the file's cmds are the retained records in append order.
C3_FileIsHistory ==
    (main.pc = "exited" /\ \A i \in 1..Len(flushers) : flushers[i].pc = "done")
        => file.cmds = retained

\* flushers that have loaded the file and not yet written it back
Touching == { i \in 1..Len(flushers) : flushers[i].pc = "loaded" }

\* C4: at most one participant is between its read of the session file and
\* the end of its access.
C4_OneAtATime == Cardinality(Touching) <= 1

\* C5: a background flusher touches the file only after every flusher queued
\* before it has finished and left the queue, and a disk read only after
\* every flusher queued before it.
C5_Fifo ==
    /\ \A i, j \in Background :
          (i < j /\ flushers[j].pc \in {"loaded", "written", "done"})
              => flushers[i].pc = "done"
    /\ main.pc = "rd_pop" => \A i \in Background : flushers[i].pc = "done"

\* C6: unless a file operation fails or the closing flush intervenes, every
\* background flusher that has joined the queue eventually finishes and
\* leaves it.
C6_NoStarvation ==
    \A i \in 1..MaxCalls :
        (i \in Background)
            ~> (\/ (i \in Background /\ flushers[i].pc = "done")
                \/ nfail > 0
                \/ main.pc \in {"at_exit", "exited"})

\* q without the participant p
Without(q, p) == SelectSeq(q, LAMBDA x : x # p)

\* C7: when flush(at_exit=True) returns, it has removed the at-exit flusher,
\* and nothing else, from the queue.
C7_AtExitRemovesItself ==
    [][(main.pc = "at_exit" /\ main'.pc = "exited")
          => queue' = Without(queue, main.hf)]_vars

\* C8: once flush(at_exit=True) has returned, the session file is unlocked
\* and has an end timestamp.
C8_ClosedFile ==
    main.pc = "exited" => (file.locked = FALSE /\ file.ts # None)

\* the skip rules of append for cmd, on the records retained so far
ShouldSkip(cmd) ==
    \/ /\ "ignoredups" \in opts
       /\ retained # << >>
       /\ cmd.inp = retained[Len(retained)].inp
    \/ /\ "ignoreerr" \in opts
       /\ cmd.rtn # 0

\* C9: a call of append that returns has either skipped the record (it
\* repeats the last retained input under ignoredups, or failed under
\* ignoreerr) and changed nothing, or added it as the last record: at the
\* end of the buffer, or of the buffer handed to the flusher it returns.
C9_AppendSkipRules ==
    [][(ret' # ret /\ ret'.op = "append" /\ ret'.kind \in {"skip", "kept"})
          => LET cmd == ret'.cmd
             IN  IF ShouldSkip(cmd)
                 THEN /\ UNCHANGED << buffer, hlen, queue, file, flushers >>
                      /\ ret'.val = None
                 ELSE /\ hlen' = hlen + 1
                      /\ \/ /\ buffer' = Append(buffer, cmd)
                            /\ Len(buffer') < buffersize
                            /\ UNCHANGED << queue, flushers >>
                            /\ ret'.val = None
                         \/ /\ buffer' = << >>
                            /\ Len(flushers') = Len(flushers) + 1
                            /\ flushers'[Len(flushers')].buffer
                                  = Append(buffer, cmd)
                            /\ ret'.val = Len(flushers')]_vars

C9_Witness ==
    /\ ret.op = "append"
    /\ ret.kind = "skip"
    /\ "ignoredups" \in opts
    /\ buffer = << >>
    /\ hlen > 0
    /\ ret.cmd.rtn = 0

\* C10: a collection pass in unlocked-only mode removes no file that was
\* locked when the pass listed it, and the locked file of the session that
\* started the collector stays in place.
C10_NeverRemovesLocked ==
    /\ gc.removed \cap gc.seenLocked = {}
    /\ dir[OwnPath].locked => dir[OwnPath].exists

C10_Witness ==
    /\ gc.pc = "done"
    /\ gc.removed # {}
    /\ OwnPath \in gc.seenLocked
    /\ dir[OwnPath].locked
    /\ dir[OwnPath].ncmds = 0
    /\ gcenv.units = "commands"
    /\ \E f \in gc.seenLocked : f # OwnPath /\ ~dir[f].locked

\* ---------------------------------------------------- the policies' claims
\* the policy of unit u has been applied to the sorted list gc.files
Applied(u) == gc.pc = "remove" /\ gcenv.units = u

\* the paths the policy returned
Selected == {gc.rmfiles[i][3] : i \in 1..Len(gc.rmfiles)}

\* the file at position i of the sorted list is not selected
Kept(i) == gc.files[i][3] \notin Selected

RECURSIVE KeptCmds(_)
\* the commands of the files kept among positions i..Len(gc.files)
KeptCmds(i) ==
    IF i > Len(gc.files) THEN 0
    ELSE (IF Kept(i) THEN gc.files[i][2] ELSE 0) + KeptCmds(i + 1)

\* C11: by command count, the files not selected are a newest run of the
\* sorted list (its files without commands aside) and hold at most the limit
\* of commands together.
C11_NewestRunFits ==
    Applied("commands") =>
        /\ \A i, j \in 1..Len(gc.files) :
              (i < j /\ Kept(i) /\ gc.files[j][2] # 0) => Kept(j)
        /\ KeptCmds(1) <= gcenv.hsize

\* C12: by command count, every file without commands is selected, wherever
\* it stands in the list and whatever the limit.
C12_EmptyFilesSelected ==
    Applied("commands") =>
        \A i \in 1..Len(gc.files) : gc.files[i][2] = 0 => ~Kept(i)

\* C13: by file count, the files not selected are exactly the newest `limit`
\* files, and nothing is selected at or below the limit.
C13_NewestLimitKept ==
    Applied("files") =>
        /\ \A i \in 1..Len(gc.files) :
              Kept(i) <=> i > Len(gc.files) - gcenv.hsize
        /\ Selected \subseteq {gc.files[i][3] : i \in 1..Len(gc.files)}

RECURSIVE RunBytes(_)
\* the bytes of the files at positions i..Len(gc.files), newest first
RunBytes(i) ==
    IF i > Len(gc.files) THEN 0
    ELSE dir[gc.files[i][3]].size + RunBytes(i + 1)

\* the position at which the running total first exceeds the limit, scanning
\* from the newest file; 0 when it never does
StopAt ==
    IF \E i \in 1..Len(gc.files) : RunBytes(i) > gcenv.hsize
    THEN CHOOSE i \in 1..Len(gc.files) :
            /\ RunBytes(i) > gcenv.hsize
            /\ \A j \in (i + 1)..Len(gc.files) : RunBytes(j) <= gcenv.hsize
    ELSE 0

C15_OldFilesSelected ==
    Applied("s") =>
        /\ Selected = {gc.files[i][3] : i \in
                          {k \in 1..Len(gc.files) :
                              GCNow - gc.files[k][1] >= gcenv.hsize}}
        /\ Len(gc.rmfiles) <= Len(gc.files)
        /\ \A i \in 1..Len(gc.rmfiles) : gc.rmfiles[i][3] = gc.files[i][3]

C15_Witness ==
    /\ Applied("s")
    /\ Len(gc.files) = 3
    /\ Len(gc.rmfiles) = 2
    /\ GCNow - gc.files[2][1] = gcenv.hsize

\* C16: CommandField[key] with a key outside [-len, len - 1], or on an empty
\* history, returns no value: the call ends with an error.
C16_IndexErrors ==
    (ret.op = "getitem" /\ ~Valid(ret.key)) => ret.kind # "value"

\* C17: with a unit that is none of commands, files, s, b the pass ends with
\* the ValueError for the unit and removes no file.
C17_UnknownUnit ==
    gcenv.units \notin Units =>
        /\ gc.removed = {}
        /\ gc.pc \notin {"remove", "done"}
        /\ gc.pc = "error" => gc.err = "ValueError"

\* C18: a selected file that is gone when its removal is attempted raises no
\* error: the removal loop can always take its next step, each step takes one
\* file off the list of selected files, every file taken off was removed by
\* the pass or was gone at its turn, and the loop ends with the pass done.
C18_GoneFileIsSkipped ==
    /\ [](gc.pc \in {"remove", "done"} =>
            /\ gc.err = "none"
            /\ gc.removed \cap gc.missed = {}
            /\ \A f \in gc.removed \cup gc.missed : ~dir[f].exists)
    /\ [](gc.pc = "remove" => ENABLED (GCRemove \/ GCDone))
    /\ [](gc.pc = "done" => gc.rmfiles = << >>)
    /\ [][(gc.pc = "remove" /\ << gc.pc, gc.rmfiles >>' # << gc.pc, gc.rmfiles >>)
            => /\ (gc.removed \cup gc.missed \cup Selected)' =
                      gc.removed \cup gc.missed \cup Selected
               /\ \/ gc'.pc = "done" /\ gc.rmfiles = << >>
                  \/ gc'.pc = "remove" /\ gc'.rmfiles = Tail(gc.rmfiles)]_vars

C18_Witness ==
    /\ gc.pc = "done"
    /\ gc.missed # {}
    /\ gc.removed # {}
    /\ \E i \in 1..Len(gc.files) : gc.files[i][3] \in gc.missed

\* this step creates exactly one flush task, with the snapshot snap
OneTask(snap) ==
    /\ Len(flushers') = Len(flushers) + 1
    /\ SubSeq(flushers', 1, Len(flushers)) = flushers
    /\ flushers'[Len(flushers')].buffer = snap
    /\ queue' = Append(queue, Len(flushers'))

\* C19: flush on an empty buffer returns None and changes neither the queue,
\* the file, the length nor the tasks; on a non-empty buffer it creates
\* exactly one task holding the buffer's records in order, and it returns
\* with the buffer empty and the length unchanged. Stated for flush called by
\* the owner and for the closing flush.
C19_FlushFrame ==
    [][/\ (ret' # ret /\ ret'.op = "flush") =>
              IF buffer = << >>
              THEN /\ ret'.val = None
                   /\ UNCHANGED << buffer, queue, file, hlen, flushers >>
              ELSE /\ ret'.val = Len(flushers')
                   /\ OneTask(buffer)
                   /\ buffer' = << >>
                   /\ UNCHANGED << file, hlen >>
       /\ (main.pc = "idle" /\ main'.pc = "exited") =>
              /\ buffer = << >>
              /\ ret'.val = None
              /\ UNCHANGED << buffer, queue, file, hlen, flushers >>
       /\ (main.pc = "idle" /\ main'.pc = "at_exit") =>
              /\ buffer # << >>
              /\ OneTask(buffer)
              /\ hlen' = hlen
       /\ (main.pc = "at_exit" /\ main'.pc = "exited") =>
              /\ buffer' = << >>
              /\ hlen' = hlen
              /\ Len(flushers') = Len(flushers)
      ]_vars

C19_Witness ==
    /\ ret.op = "flush"
    /\ ret.val = 2
    /\ Len(flushers) = 2
    /\ flushers[2].buffer # << >>
    /\ buffer = << >>
    /\ hlen = 2

\* C20: when append returns the buffer holds fewer records than buffersize,
\* and the call has dispatched a flush task exactly when the record it kept
\* brought the buffer to buffersize.
C20_BufferBounded ==
    [][(ret' # ret /\ ret'.op = "append") =>
          /\ Len(buffer') < buffersize
          /\ Len(flushers') > Len(flushers) <=>
                (ret'.kind = "kept" /\ Len(buffer) + 1 >= buffersize)
          /\ Len(flushers') = Len(flushers) => buffer' \in {buffer,
                                                   Append(buffer, ret'.cmd)}
      ]_vars

C20_Witness ==
    /\ ret.op = "append"
    /\ ret.kind = "kept"
    /\ buffersize = 2
    /\ Len(buffer) = 1
    /\ Len(flushers) = 1
    /\ hlen = 3

\* some path stands twice in the list s of (ts, ncmds, path) tuples
ListedTwice(s) ==
    \E i, j \in 1..Len(s) : i < j /\ s[i][3] = s[j][3]

\* C21 as stated: there is a limit and a sorted list of files with distinct
\* paths for which the by-command-count policy returns some file twice.
\* Stated where a collector is about to apply its policy.
C21_CanListTwice ==
    gc.pc = "list" =>
        \E d \in PolDirs, hsize \in PolLimits :
            ListedTwice(_gc_commands_to_rmfiles(hsize, Sorted(listing(d))))

\* C21 amended: for every limit and every sorted list of files with distinct
\* paths, the by-command-count policy returns no file twice: an empty file
\* is listed once, inside the retained window because it is empty or outside
\* it with the other files there.
C21_NeverListsTwice ==
    Applied("commands") =>
        /\ ~ListedTwice(gc.rmfiles)
        /\ \A i \in 1..Len(gc.rmfiles) :
              \E k \in 1..Len(gc.files) : gc.rmfiles[i] = gc.files[k]

C21_Witness ==
    /\ Applied("commands")
    /\ Len(gc.files) = 3
    /\ gc.files[1][2] = 0
    /\ gc.files[2][2] # 0
    /\ gc.files[3][2] = 0
    /\ gc.rmfiles = << gc.files[3], gc.files[1], gc.files[2] >>

\* x is in the queue
InQueue(x) == \E k \in 1..Len(queue) : queue[k] = x

\* C22: a participant whose file operation has raised is no longer in the
\* queue: neither a background flusher whose dump failed nor the field whose
\* disk read failed.
C22_FailureLeavesQueue ==
    /\ \A i \in Background : flushers[i].pc = "failed" => ~InQueue(i)
    /\ (main.pc = "idle" /\ ret.kind = "IOError")
          => ~InQueue(FieldId(ret.field))

\* C23: the collector's thread looks a unit up in gc_units_to_rmfiles only
\* when __init__ has assigned the table.
C23_TableAssignedBeforeUse ==
    [][(gc.pc = "list" /\ gc'.pc # "list") => gc.table]_vars

====
